---- MODULE Spec2Model ----
(***************************************************************************)
(* Streaming-response coordination and session persistence of the tomatic  *)
(* chat client (src/src/chat/request.rs, src/src/chat/actions.rs,          *)
(* src/src/chat.rs, src/src/chat/message.rs, src/src/main.rs,              *)
(* src/src/persistence.rs).                                                *)
(*                                                                         *)
(* Every request runs as a task started with spawn_local.  A task runs     *)
(* from one await to the next without interruption; the browser runs a     *)
(* woken task before it delivers the next external event (user action,     *)
(* stream item, timer, database result), so an external event is taken     *)
(* only when no task is runnable (Quiescent).                              *)
(*                                                                         *)
(* Text is a sequence of tokens; concatenation of text is \o.  An          *)
(* Option<T> is a sequence of length at most one.                          *)
(***************************************************************************)
EXTENDS Integers, Sequences, FiniteSets, TLC

\* ---------------------------------------------------------------- bounds
MaxRuns == 2
MaxDeltas == 2
MaxTime == 300
MaxSessions == 2
MaxKeys == 3
MaxStamp == 4
MaxClock == 4000

\* ------------------------------------------------------------- constants
THROTTLE_MS == 200
DEBOUNCE_MS == 2000
DB_VERSION == 1

\* the clock advances in steps of these sizes (milliseconds)
Delays == {100}

\* the time the user lets pass between two actions (milliseconds)
Pauses == {1000}

None == <<>>
Some(x) == <<x>>

NoSession == 0
\* the sessions a previous visit may have left in the store
OldSessionIds == {1}
FirstFreshId == 2
SessionIds == 1..MaxSessions
RunIds == 1..MaxRuns

\* ------------------------------------------------------------------ text
UserText == <<1>>
EditedText == <<2>>
OldAnswer == <<3>>
\* the k-th content delta of the stream of run r
Delta(r, k) == <<10 * r + k>>

RECURSIVE IsPrefix(_, _)
IsPrefix(s, t) ==
    IF s = <<>> THEN TRUE
    ELSE IF t = <<>> THEN FALSE
    ELSE Head(s) = Head(t) /\ IsPrefix(Tail(s), Tail(t))

\* -------------------------------------------------------------- messages
\* run is a history field: the run that appended the message (0: none)
Message(role, content, run) ==
    [role |-> role, content |-> content, cost |-> None, run |-> run]

MessageCost(prompt, completion) == [prompt |-> prompt, completion |-> completion]

\* m.pop()
PopNothing(m) == m

Pop(m) == IF m = <<>> THEN m ELSE SubSeq(m, 1, Len(m) - 1)

\* m.drain(index..), index counted from 0
Drain(m, index) == SubSeq(m, 1, index)

\* if let Some(last) = m.last_mut() { last.content = c }
SetLastContent(m, c) ==
    IF m = <<>> THEN m ELSE [m EXCEPT ![Len(m)].content = c]

\* if let Some(last) = m.last_mut() { last.cost = Some(c) }
SetLastCost(m, c) ==
    IF m = <<>> THEN m ELSE [m EXCEPT ![Len(m)].cost = Some(c)]

\* ------------------------------------------------------- stream policy
should_update_inclusive(last_update_time, t) ==
    IF last_update_time = None THEN TRUE
    ELSE t - last_update_time[1] >= THROTTLE_MS

should_update_always(last_update_time, t) == TRUE

should_update(last_update_time, t) ==
    IF last_update_time = None THEN TRUE
    ELSE t - last_update_time[1] > THROTTLE_MS

\* accumulated_content.push_str(&buffer)
FlushedReversed(accumulated_content, buffer) == buffer \o accumulated_content

Flushed(accumulated_content, buffer) == accumulated_content \o buffer

\* the flush that precedes the cost of a usage report
UsageFlushSkipped(accumulated_content, buffer) == accumulated_content

UsageFlush(accumulated_content, buffer) == Flushed(accumulated_content, buffer)

\* the flush after the stream has ended
FinalFlushSkipped(accumulated_content, buffer) == accumulated_content

FinalFlush(accumulated_content, buffer) == Flushed(accumulated_content, buffer)

\* prices are USD per million tokens, costs are in millionths of a USD:
\* price.unwrap_or(0.0) * tokens / 1_000_000.0
SideCostUnpriced(price, tokens) ==
    IF price = None THEN 1 * tokens ELSE price[1] * tokens

SideCost(price, tokens) ==
    IF price = None THEN 0 ELSE price[1] * tokens

\* cached_models.get().into_iter().find(|m| m.id == current_model_name)
ModelInfos ==
    { None,
      Some([prompt_cost_usd_pm |-> Some(3), completion_cost_usd_pm |-> None]),
      Some([prompt_cost_usd_pm |-> None, completion_cost_usd_pm |-> Some(15)]) }

Usages == { [prompt_tokens |-> 10, completion_tokens |-> 5] }

\* ----------------------------------------------------------------- state
VARIABLES
    messages,               \* the message list of the current session
    runs,                   \* the tasks running handle_llm_request
    next_run,               \* the next task to be spawned
    cancel_sender,          \* Option: the run whose oneshot sender is stored
    input_disabled,         \* the busy flag
    error,                  \* the error slot
    now,                    \* performance.now() / Date::now()
    current_session_id,
    next_id,                \* the next fresh Uuid
    store,                  \* the records of the chat_sessions object store
    db,                     \* the database: version, object store, index
    result,                 \* what the last persistence call returned
    pending_save,           \* Option: the armed debounced save
    explicit_saves,         \* saves spawned by New Chat, not yet run
    saving,                 \* records built by saves, not yet put
    loads,                  \* load_session tasks, not yet completed
    list_pending,           \* a load_session_list task has not completed
    sorted_session_ids,
    current_session_index

vars == << messages, runs, next_run, cancel_sender, input_disabled, error, now,
           current_session_id, next_id, store, db, result, pending_save, explicit_saves, saving,
           loads, list_pending, sorted_session_ids, current_session_index >>

chatVars == << messages, runs, next_run, cancel_sender, input_disabled, error >>
sessionVars == << current_session_id, next_id, store, db, result, pending_save,
                  explicit_saves, saving, loads, list_pending, sorted_session_ids,
                  current_session_index >>

\* a task that has not been spawned, or whose stream state was destroyed
IdleRun ==
    [ pc |-> "idle", rx |-> "pending", accumulated_content |-> <<>>,
      buffer |-> <<>>, last_update_time |-> None,
      received |-> <<>>, usage_at |-> None, last_visible |-> None,
      last_elapsed |-> None, pre |-> <<>>, session |-> NoSession,
      interfered |-> FALSE, outcome |-> "none", origin |-> "none",
      alone |-> FALSE ]

EndedRun(session, outcome) ==
    [IdleRun EXCEPT !.pc = "done", !.session = session, !.outcome = outcome]

InFlight(r) == runs[r].pc = "loop"

\* a run whose cancel_receiver has resolved is runnable
RunnableNever(r) == FALSE

Runnable(r) == InFlight(r) /\ runs[r].rx # "pending"

Quiescent == \A r \in RunIds : ~Runnable(r)

\* ------------------------------------------------------------ the store
ChatSession(id, msgs, created, updated) ==
    [ session_id |-> id, messages |-> msgs,
      created_at_ms |-> created, updated_at_ms |-> updated ]

\* the copy of a message list that is written to storage
Stored(msgs) == [ i \in 1..Len(msgs) |-> [msgs[i] EXCEPT !.run = 0] ]

OldSession(id) ==
    ChatSession(id,
                << Message("user", UserText, 0),
                   Message("assistant", OldAnswer, 0) >>,
                id - FirstFreshId, id - FirstFreshId)

StoredIds(st) == { id \in DOMAIN st : st[id] # None }

\* the database as the browser keeps it: version 0 is a database that does
\* not exist; index is None when the object store has no updated_at_ms index
Database(version, has_store, index) ==
    [ version |-> version, has_store |-> has_store, index |-> index ]

\* the entry of the updated_at_ms index for a record: index key, primary key
IndexEntry(session) == << session.updated_at_ms, session.session_id >>

\* create_index on an object store: one entry per record it holds
IndexOf(st) == { IndexEntry(st[id][1]) : id \in StoredIds(st) }

\* factory.open(DB_NAME, Some(DB_VERSION)): on_upgrade_needed runs only when
\* the stored version is lower than the requested one
get_db(d, st) ==
    IF d.version < DB_VERSION
    THEN Database(DB_VERSION, TRUE,
                  IF ~d.has_store THEN Some({})
                  ELSE IF d.index = None THEN Some(IndexOf(st))
                  ELSE d.index)
    ELSE d

\* store.put(&js_value, None): the key is the record's session_id
PutAdd(st, session) ==
    IF st[session.session_id] = None
    THEN [st EXCEPT ![session.session_id] = Some(session)]
    ELSE st

Put(st, session) == [st EXCEPT ![session.session_id] = Some(session)]

\* what put does to the index: the entry of the replaced record goes, the
\* entry of the new record comes
PutIndexStale(idx, session) ==
    IF idx = None THEN None ELSE Some(idx[1] \cup {IndexEntry(session)})

PutIndex(idx, session) ==
    IF idx = None THEN None
    ELSE Some({ e \in idx[1] : e[2] # session.session_id }
              \cup {IndexEntry(session)})

\* store.delete(Query::from(key))
DeleteNothing(st, id) == st

Delete(st, id) == [st EXCEPT ![id] = None]

DeleteIndex(idx, id) ==
    IF idx = None THEN None ELSE Some({ e \in idx[1] : e[2] # id })

\* the entry the cursor of the updated_at_ms index visits first with
\* CursorDirection::Prev: greatest updated_at_ms, then greatest key
Oldest(entries) ==
    CHOOSE e \in entries : \A o \in entries :
        \/ e[1] < o[1]
        \/ e[1] = o[1] /\ e[2] <= o[2]

Newest(entries) ==
    CHOOSE e \in entries : \A o \in entries :
        \/ o[1] < e[1]
        \/ o[1] = e[1] /\ o[2] <= e[2]

\* keys.push(primary_key) for every entry the cursor visits
RECURSIVE SortedKeys(_)
SortedKeys(entries) ==
    IF entries = {} THEN <<>>
    ELSE LET n == Newest(entries)
         IN  << n[2] >> \o SortedKeys(entries \ {n})

get_all_session_keys_sorted_by_update(entries) == SortedKeys(entries)

\* save_session: open the database, put, commit
save_session(d, st, session) ==
    LET opened == get_db(d, st)
    IN  [ db |-> [opened EXCEPT !.index = PutIndex(@, session)],
          store |-> Put(st, session) ]

\* a transaction that is not committed is aborted: the object store and
\* its index are as they were before the transaction began
RollbackPartial(before, written) == written

Rollback(before, written) == before

\* the places where save_session returns Err
SaveStages == {"open", "transaction", "put", "commit"}

\* save_session returns Err at the given stage; at commit the put has
\* already been carried out within the transaction
save_session_failed(d, st, session, stage) ==
    IF stage = "open" THEN [ db |-> d, store |-> st ]
    ELSE LET opened == get_db(d, st)
             put_done == stage = "commit"
         IN  [ db |-> [opened EXCEPT !.index =
                          IF put_done THEN Rollback(@, PutIndex(@, session))
                          ELSE @],
               store |-> IF put_done THEN Rollback(st, Put(st, session))
                         ELSE st ]

\* delete_session: open the database, delete, commit
delete_session(d, st, id) ==
    LET opened == get_db(d, st)
    IN  [ db |-> [opened EXCEPT !.index = DeleteIndex(@, id)],
          store |-> Delete(st, id) ]

\* the position counted from one
PositionFromOne(keys, id) ==
    IF \E i \in DOMAIN keys : keys[i] = id
    THEN Some(CHOOSE i \in DOMAIN keys : keys[i] = id)
    ELSE None

\* keys.iter().position(|k| *k == id), counted from 0
Position(keys, id) ==
    IF \E i \in 1..Len(keys) : keys[i] = id
    THEN Some((CHOOSE i \in 1..Len(keys) : keys[i] = id) - 1)
    ELSE None

\* the record debounced_save_session builds from the existing record
SaveRecordFresh(st, id, msgs, t) == ChatSession(id, Stored(msgs), t, t)

\* created_at_ms and updated_at_ms take each other's value
SaveRecordSwapped(st, id, msgs, t) ==
    ChatSession(id, Stored(msgs),
                t,
                IF st[id] = None THEN t ELSE st[id][1].created_at_ms)

SaveRecord(st, id, msgs, t) ==
    ChatSession(id, Stored(msgs),
                IF st[id] = None THEN t ELSE st[id][1].created_at_ms,
                t)

\* if !id.is_empty() && !msgs.is_empty(): the condition under which a
\* session is saved
ShouldSaveAnyList(id, msgs) == id # NoSession

ShouldSave(id, msgs) == id # NoSession /\ msgs # <<>>

\* the save Effect: arms the debounced save with the latest snapshot; the
\* timer restarts at every call
SaveEffectLeading(id, msgs, pending) ==
    IF ShouldSave(id, msgs) /\ pending = None
    THEN Some([session_id |-> id, messages |-> msgs,
               due |-> now + DEBOUNCE_MS])
    ELSE pending

SaveEffect(id, msgs, pending) ==
    IF ShouldSave(id, msgs)
    THEN Some([session_id |-> id, messages |-> msgs,
               due |-> now + DEBOUNCE_MS])
    ELSE pending

\* what a persistence call returned: Ok(value) or Err
Result(op, ok, value) == [ op |-> op, ok |-> ok, value |-> value ]

NoResult == Result("none", TRUE, None)

\* ------------------------------------------------------------------ Init
Init ==
    /\ messages = <<>>
    /\ runs = [ r \in RunIds |-> IdleRun ]
    /\ next_run = 1
    /\ cancel_sender = None
    /\ input_disabled = FALSE
    /\ error = None
    /\ now = 0
    /\ current_session_id = NoSession
    /\ next_id = FirstFreshId
    /\ store \in { [ id \in SessionIds |-> None ],
                   [ id \in SessionIds |->
                        IF id \in OldSessionIds THEN Some(OldSession(id))
                        ELSE None ] }
    /\ db = Database(DB_VERSION, TRUE, Some(IndexOf(store)))
    /\ result = NoResult
    /\ saving = <<>>
    /\ pending_save = None
    /\ explicit_saves = {}
    /\ loads = {}
    /\ list_pending = TRUE
    /\ sorted_session_ids = <<>>
    /\ current_session_index = None

\* ------------------------------------------------- the cancel channel
\* replacing or clearing the stored oneshot sender drops it, which
\* resolves the receiver of its run
DropSender(rs, sender) ==
    IF sender # None /\ rs[sender[1]].pc = "loop" /\ rs[sender[1]].rx = "pending"
    THEN [rs EXCEPT ![sender[1]].rx = "dropped"]
    ELSE rs

\* a user action (regenerate, edit and resubmit, a loaded or new session)
\* arrives while runs are in flight; interfered is a history field
Interfere(rs) ==
    [ r \in RunIds |->
        IF rs[r].pc = "loop" THEN [rs[r] EXCEPT !.interfered = TRUE] ELSE rs[r] ]

\* the texts of the error slot
NoErrorText == None

ApiKeyError == Some("no_api_key")

RequestError == Some("request_error")

StreamErrorText == Some("stream_error")

\* set_input_disabled.set(false); set_cancel_sender.set(None) after the
\* request of run r has returned
Finish(r, outcome) ==
    /\ runs' = [DropSender(runs, cancel_sender) EXCEPT
                    ![r] = EndedRun(runs[r].session, outcome)]
    /\ input_disabled' = FALSE
    /\ cancel_sender' = None

\* ---------------------------------------------------- starting a request
\* the task spawned by execute_llm_request, up to its first suspension;
\* m1 and sid are the message list and session id after prepare_messages
\* (origin and alone are history fields: the action that spawned the task,
\* and whether no other run was in flight when it was spawned)
execute_llm_request(m1, sid, key_empty, open_fails, origin) ==
    LET r == next_run
        rs == Interfere(DropSender(runs, cancel_sender))
    IN  /\ next_run <= MaxRuns
        /\ next_run' = r + 1
        /\ IF key_empty
           THEN /\ messages' = m1
                /\ runs' = [rs EXCEPT ![r] = EndedRun(sid, "rejected")]
                /\ error' = ApiKeyError
                /\ input_disabled' = FALSE
                /\ cancel_sender' = None
           ELSE IF open_fails
           THEN /\ messages' = Pop(Append(m1, Message("assistant", <<>>, r)))
                /\ runs' = [rs EXCEPT ![r] = EndedRun(sid, "error")]
                /\ error' = RequestError
                /\ input_disabled' = FALSE
                /\ cancel_sender' = None
           ELSE /\ messages' = Append(m1, Message("assistant", <<>>, r))
                /\ runs' = [rs EXCEPT ![r] =
                              [IdleRun EXCEPT !.pc = "loop", !.pre = m1,
                                              !.session = sid,
                                              !.origin = origin,
                                              !.alone = \A q \in RunIds :
                                                           runs[q].pc # "loop"]]
                /\ error' = None
                /\ input_disabled' = TRUE
                /\ cancel_sender' = Some(r)
        /\ pending_save' = SaveEffect(sid, messages', pending_save)

submit_action(key_empty, open_fails) ==
    /\ Quiescent
    /\ ~input_disabled
    /\ current_session_id = NoSession => next_id <= MaxSessions
    /\ LET sid == IF current_session_id = NoSession THEN next_id
                  ELSE current_session_id
       IN  /\ current_session_id' = sid
           /\ next_id' = IF current_session_id = NoSession THEN next_id + 1
                         ELSE next_id
           /\ execute_llm_request(Append(messages, Message("user", UserText, 0)),
                                  sid, key_empty, open_fails, "submit")
    /\ UNCHANGED << now, store, db, result, explicit_saves, saving, loads, list_pending,
                    sorted_session_ids, current_session_index >>

regenerate_action(index, key_empty, open_fails) ==
    /\ Quiescent
    /\ index \in 0..(Len(messages) - 1)
    /\ messages[index + 1].role = "assistant"
    /\ execute_llm_request(Drain(messages, index), current_session_id,
                           key_empty, open_fails, "regenerate")
    /\ UNCHANGED << now, current_session_id, next_id, store, db, result, explicit_saves, saving,
                    loads, list_pending, sorted_session_ids,
                    current_session_index >>

handle_resubmit(message_index, key_empty, open_fails) ==
    /\ Quiescent
    /\ message_index \in 0..(Len(messages) - 1)
    /\ messages[message_index + 1].role = "user"
    /\ execute_llm_request(
           Drain([messages EXCEPT ![message_index + 1].content = EditedText],
                 message_index + 1),
           current_session_id, key_empty, open_fails, "resubmit")
    /\ UNCHANGED << now, current_session_id, next_id, store, db, result, explicit_saves, saving,
                    loads, list_pending, sorted_session_ids,
                    current_session_index >>

\* the sender, if there is one, is taken and sends; the message list is
\* touched by nobody but the run
cancel_action_popping ==
    /\ Quiescent
    /\ runs' = IF cancel_sender # None /\ runs[cancel_sender[1]].pc = "loop"
               THEN [runs EXCEPT ![cancel_sender[1]].rx = "sent"]
               ELSE runs
    /\ cancel_sender' = None
    /\ messages' = Pop(messages)
    /\ UNCHANGED << next_run, input_disabled, error, now >>
    /\ UNCHANGED sessionVars

\* if let Some(sender) = sender_opt.take() { let _ = sender.send(()); }
cancel_action ==
    /\ Quiescent
    /\ runs' = IF cancel_sender # None /\ runs[cancel_sender[1]].pc = "loop"
               THEN [runs EXCEPT ![cancel_sender[1]].rx = "sent"]
               ELSE runs
    /\ cancel_sender' = None
    /\ UNCHANGED << messages, next_run, input_disabled, error, now >>
    /\ UNCHANGED sessionVars

\* ------------------------------------------------- the select! loop
\* cancel_receiver has resolved: m.pop() and return
CancelBranch(r) ==
    /\ Runnable(r)
    /\ messages' = Pop(messages)
    /\ Finish(r, "cancelled")
    /\ pending_save' = SaveEffect(current_session_id, messages', pending_save)
    /\ UNCHANGED << next_run, error, now, current_session_id, next_id, store, db, result,
                    explicit_saves, saving, loads, list_pending, sorted_session_ids,
                    current_session_index >>

\* the stream yields StreamedMessage::Content
StreamContent(r) ==
    /\ Quiescent
    /\ InFlight(r)
    /\ Len(runs[r].received) < MaxDeltas
    /\ LET run == runs[r]
           content == Delta(r, Len(run.received) + 1)
           buffer == run.buffer \o content
           upd == should_update(run.last_update_time, now)
           acc == Flushed(run.accumulated_content, buffer)
           seen == [run EXCEPT !.received = @ \o content,
                               !.last_elapsed =
                                   IF run.last_update_time = None THEN None
                                   ELSE Some(now - run.last_update_time[1])]
       IN  IF upd
           THEN /\ runs' = [runs EXCEPT ![r] =
                              [seen EXCEPT !.accumulated_content = acc,
                                           !.buffer = <<>>,
                                           !.last_update_time = Some(now),
                                           !.last_visible = Some(now)]]
                /\ messages' = SetLastContent(messages, acc)
                /\ pending_save' =
                       SaveEffect(current_session_id, messages', pending_save)
           ELSE /\ runs' = [runs EXCEPT ![r] = [seen EXCEPT !.buffer = buffer]]
                /\ UNCHANGED << messages, pending_save >>
    /\ UNCHANGED << next_run, cancel_sender, input_disabled, error, now,
                    current_session_id, next_id, store, db, result, explicit_saves, saving, loads,
                    list_pending, sorted_session_ids, current_session_index >>

\* the stream yields StreamedMessage::Usage
StreamUsage(r, usage, model_info) ==
    /\ Quiescent
    /\ InFlight(r)
    /\ runs[r].usage_at = None
    /\ LET run == runs[r]
           flush == run.buffer # <<>>
           acc == IF flush THEN UsageFlush(run.accumulated_content, run.buffer)
                  ELSE run.accumulated_content
           m1 == IF flush THEN SetLastContent(messages, acc) ELSE messages
           cost == MessageCost(
                       SideCost(model_info[1].prompt_cost_usd_pm,
                                usage.prompt_tokens),
                       SideCost(model_info[1].completion_cost_usd_pm,
                                usage.completion_tokens))
       IN  /\ runs' = [runs EXCEPT ![r] =
                         [run EXCEPT !.accumulated_content = acc,
                                     !.buffer = IF flush THEN <<>> ELSE @,
                                     !.usage_at = Some(Len(run.received)),
                                     !.last_visible =
                                         IF flush THEN Some(now) ELSE @]]
           /\ messages' = IF model_info # None THEN SetLastCost(m1, cost) ELSE m1
           /\ pending_save' =
                  IF flush \/ model_info # None
                  THEN SaveEffect(current_session_id, messages', pending_save)
                  ELSE pending_save
    /\ UNCHANGED << next_run, cancel_sender, input_disabled, error, now,
                    current_session_id, next_id, store, db, result, explicit_saves, saving, loads,
                    list_pending, sorted_session_ids, current_session_index >>

\* the stream yields Err(err)
StreamError(r) ==
    /\ Quiescent
    /\ InFlight(r)
    /\ error' = StreamErrorText
    /\ messages' = Pop(messages)
    /\ Finish(r, "error")
    /\ pending_save' = SaveEffect(current_session_id, messages', pending_save)
    /\ UNCHANGED << next_run, now, current_session_id, next_id, store, db, result,
                    explicit_saves, saving, loads, list_pending, sorted_session_ids,
                    current_session_index >>

\* the stream yields None: break, then the flush after the loop
StreamEnd(r) ==
    /\ Quiescent
    /\ InFlight(r)
    /\ LET run == runs[r]
           flush == run.buffer # <<>>
       IN  /\ messages' =
                  IF flush
                  THEN SetLastContent(messages,
                           FinalFlush(run.accumulated_content, run.buffer))
                  ELSE messages
           /\ pending_save' =
                  IF flush
                  THEN SaveEffect(current_session_id, messages', pending_save)
                  ELSE pending_save
    /\ Finish(r, "completed")
    /\ UNCHANGED << next_run, error, now, current_session_id, next_id, store, db, result,
                    explicit_saves, saving, loads, list_pending, sorted_session_ids,
                    current_session_index >>

Tick(d) ==
    /\ Quiescent
    /\ now + d <= MaxTime
    /\ now' = now + d
    /\ UNCHANGED chatVars
    /\ UNCHANGED sessionVars

\* ------------------------------------------------- session navigation
\* a Next button that is offered at every position
can_go_next_always ==
    IF current_session_index # None THEN current_session_index[1] >= 0
    ELSE FALSE

\* the memos that enable the Prev and Next buttons
can_go_prev ==
    IF current_session_index # None
    THEN current_session_index[1] + 1 < Len(sorted_session_ids)
    ELSE sorted_session_ids # <<>>

can_go_next ==
    IF current_session_index # None THEN current_session_index[1] > 0
    ELSE FALSE

\* load_session(id): the task is spawned; the store is read later
StartLoad(id) ==
    /\ loads' = loads \cup {id}
    /\ UNCHANGED chatVars
    /\ UNCHANGED << now, current_session_id, next_id, store, db, result, pending_save,
                    explicit_saves, saving, list_pending, sorted_session_ids,
                    current_session_index >>

on_prev_newer ==
    /\ Quiescent
    /\ sorted_session_ids # <<>>
    /\ LET new_index == IF current_session_index = None THEN 0
                        ELSE current_session_index[1] - 1
       IN  /\ new_index >= 0
           /\ new_index < Len(sorted_session_ids)
           /\ StartLoad(sorted_session_ids[new_index + 1])

on_prev ==
    /\ Quiescent
    /\ sorted_session_ids # <<>>
    /\ LET new_index == IF current_session_index = None THEN 0
                        ELSE current_session_index[1] + 1
       IN  /\ new_index < Len(sorted_session_ids)
           /\ StartLoad(sorted_session_ids[new_index + 1])

on_next ==
    /\ Quiescent
    /\ current_session_index # None
    /\ current_session_index[1] > 0
    /\ current_session_index[1] - 1 < Len(sorted_session_ids)
    /\ StartLoad(sorted_session_ids[current_session_index[1]])

\* the load_session task resumes with the result of the store read
load_session(session_id_to_load) ==
    /\ Quiescent
    /\ session_id_to_load \in loads
    /\ loads' = loads \ {session_id_to_load}
    /\ IF store[session_id_to_load] # None
       THEN /\ current_session_id' = session_id_to_load
            /\ messages' = store[session_id_to_load][1].messages
            /\ error' = None
            /\ runs' = Interfere(runs)
            /\ current_session_index' =
                   Position(sorted_session_ids, session_id_to_load)
       ELSE /\ error' = Some("not_found")
            /\ UNCHANGED << current_session_id, messages, runs,
                            current_session_index >>
    /\ db' = get_db(db, store)
    /\ UNCHANGED << next_run, cancel_sender, input_disabled, now, next_id,
                    store, result, pending_save, explicit_saves, saving, list_pending,
                    sorted_session_ids >>

\* a new session that leaves the error slot as it is
create_new_session_keeping_error ==
    /\ Quiescent
    /\ next_id <= MaxSessions
    /\ explicit_saves' =
           IF ShouldSave(current_session_id, messages)
           THEN explicit_saves \cup
                    {[session_id |-> current_session_id, messages |-> messages]}
           ELSE explicit_saves
    /\ current_session_id' = next_id
    /\ next_id' = next_id + 1
    /\ messages' = <<>>
    /\ current_session_index' = None
    /\ runs' = Interfere(runs)
    /\ pending_save' = SaveEffect(current_session_id', messages', pending_save)
    /\ UNCHANGED << saving, next_run, cancel_sender, input_disabled, error, now, store,
                    db, result, loads, list_pending, sorted_session_ids >>

\* the New Chat button: save the old session, then create_new_session
create_new_session ==
    /\ Quiescent
    /\ next_id <= MaxSessions
    /\ explicit_saves' =
           IF ShouldSave(current_session_id, messages)
           THEN explicit_saves \cup
                    {[session_id |-> current_session_id, messages |-> messages]}
           ELSE explicit_saves
    /\ current_session_id' = next_id
    /\ next_id' = next_id + 1
    /\ messages' = <<>>
    /\ error' = None
    /\ current_session_index' = None
    /\ runs' = Interfere(runs)
    /\ pending_save' = SaveEffect(current_session_id', messages', pending_save)
    /\ UNCHANGED << saving, next_run, cancel_sender, input_disabled, now, store, db, result,
                    loads, list_pending, sorted_session_ids >>

\* the debounce timer fires: load the existing record, save, reload the list
debounced_save_session ==
    /\ Quiescent
    /\ pending_save # None
    /\ now >= pending_save[1].due
    /\ IF ShouldSave(pending_save[1].session_id, pending_save[1].messages)
       THEN /\ LET saved == save_session(db, store,
                                SaveRecord(store, pending_save[1].session_id,
                                           pending_save[1].messages, now))
               IN  store' = saved.store /\ db' = saved.db
            /\ list_pending' = TRUE
       ELSE UNCHANGED << store, db, list_pending >>
    /\ pending_save' = None
    /\ UNCHANGED chatVars
    /\ UNCHANGED << now, current_session_id, next_id, result, explicit_saves, saving,
                    loads, sorted_session_ids, current_session_index >>

\* the save spawned by New Chat runs
save_old_session(s) ==
    /\ Quiescent
    /\ s \in explicit_saves
    /\ LET saved == save_session(db, store,
                         SaveRecord(store, s.session_id, s.messages, now))
       IN  store' = saved.store /\ db' = saved.db
    /\ explicit_saves' = explicit_saves \ {s}
    /\ list_pending' = TRUE
    /\ UNCHANGED chatVars
    /\ UNCHANGED << saving, now, current_session_id, next_id, result, pending_save,
                    loads, sorted_session_ids, current_session_index >>

\* the load_session_list task resumes with the keys read from the index
load_session_list ==
    /\ Quiescent
    /\ list_pending
    /\ list_pending' = FALSE
    /\ db' = get_db(db, store)
    /\ IF db'.index # None
       THEN /\ sorted_session_ids' =
                   get_all_session_keys_sorted_by_update(db'.index[1])
            /\ current_session_index' =
                   Position(sorted_session_ids', current_session_id)
            /\ error' = error
       ELSE /\ error' = Some("list_error")
            /\ UNCHANGED << sorted_session_ids, current_session_index >>
    /\ UNCHANGED << messages, runs, next_run, cancel_sender, input_disabled,
                    now, current_session_id, next_id, store, result,
                    pending_save, explicit_saves, saving, loads >>

\* ChatPage asks for the session named by the URL, whatever the id
session_load_request(id) ==
    /\ Quiescent
    /\ StartLoad(id)

\* the user lets time pass
Pause(d) ==
    /\ Quiescent
    /\ now + d <= MaxClock
    /\ now' = now + d
    /\ UNCHANGED chatVars
    /\ UNCHANGED sessionVars

\* ----------------------------------------------------- storage failures
\* persistence::load_session returns Err in the load_session task
load_session_failed(session_id_to_load) ==
    /\ Quiescent
    /\ session_id_to_load \in loads
    /\ loads' = loads \ {session_id_to_load}
    /\ error' = Some("load_error")
    /\ UNCHANGED << messages, runs, next_run, cancel_sender, input_disabled,
                    now, current_session_id, next_id, store, db, result,
                    pending_save, explicit_saves, saving, list_pending,
                    sorted_session_ids, current_session_index >>

\* get_all_session_keys_sorted_by_update returns Err in the
\* load_session_list task
load_session_list_failed ==
    /\ Quiescent
    /\ list_pending
    /\ list_pending' = FALSE
    /\ error' = Some("list_error")
    /\ UNCHANGED << messages, runs, next_run, cancel_sender, input_disabled,
                    now, current_session_id, next_id, store, db, result,
                    pending_save, explicit_saves, saving, loads, sorted_session_ids,
                    current_session_index >>

\* the debounce timer fires and the load or the save of the task returns
\* Err: the error is logged, the list is not reloaded
debounced_save_session_failed(stage) ==
    /\ Quiescent
    /\ pending_save # None
    /\ now >= pending_save[1].due
    /\ LET saved == save_session_failed(db, store,
                         SaveRecord(store, pending_save[1].session_id,
                                    pending_save[1].messages, now), stage)
       IN  store' = saved.store /\ db' = saved.db
    /\ pending_save' = None
    /\ UNCHANGED chatVars
    /\ UNCHANGED << now, current_session_id, next_id, result, explicit_saves, saving,
                    loads, list_pending, sorted_session_ids,
                    current_session_index >>

\* the save spawned by New Chat returns Err: the error is logged
save_old_session_failed(s, stage) ==
    /\ Quiescent
    /\ s \in explicit_saves
    /\ LET saved == save_session_failed(db, store,
                         SaveRecord(store, s.session_id, s.messages, now),
                         stage)
       IN  store' = saved.store /\ db' = saved.db
    /\ explicit_saves' = explicit_saves \ {s}
    /\ UNCHANGED chatVars
    /\ UNCHANGED << saving, now, current_session_id, next_id, result, pending_save,
                    loads, list_pending, sorted_session_ids,
                    current_session_index >>

\* ------------------------------------------------------------------ Next
RunStep(r) ==
    \/ CancelBranch(r)
    \/ StreamContent(r)
    \/ \E usage \in Usages, model_info \in ModelInfos :
           StreamUsage(r, usage, model_info)
    \/ StreamError(r)
    \/ StreamEnd(r)

Next ==
    \/ \E key_empty \in BOOLEAN, open_fails \in BOOLEAN :
           submit_action(key_empty, open_fails)
    \/ \E index \in 0..(Len(messages) - 1),
          key_empty \in BOOLEAN, open_fails \in BOOLEAN :
           regenerate_action(index, key_empty, open_fails)
    \/ \E index \in 0..(Len(messages) - 1),
          key_empty \in BOOLEAN, open_fails \in BOOLEAN :
           handle_resubmit(index, key_empty, open_fails)
    \/ cancel_action
    \/ \E r \in RunIds : CancelBranch(r)
    \/ \E r \in RunIds : StreamContent(r)
    \/ \E r \in RunIds, usage \in Usages, model_info \in ModelInfos :
           StreamUsage(r, usage, model_info)
    \/ \E r \in RunIds : StreamError(r)
    \/ \E r \in RunIds : StreamEnd(r)
    \/ \E d \in Delays : Tick(d)
    \/ on_prev
    \/ on_next
    \/ \E id \in SessionIds : load_session(id)
    \/ create_new_session
    \/ debounced_save_session
    \/ \E s \in explicit_saves : save_old_session(s)
    \/ load_session_list
    \/ \E id \in SessionIds : session_load_request(id)
    \/ \E d \in Pauses : Pause(d)
    \/ \E id \in SessionIds : load_session_failed(id)
    \/ load_session_list_failed
    \/ \E stage \in SaveStages : debounced_save_session_failed(stage)
    \/ \E s \in explicit_saves, stage \in SaveStages :
           save_old_session_failed(s, stage)

Spec == Init /\ [][Next]_vars

\* The stream coordinator together with the user actions that can interfere
\* with a run in flight.  The store is only read: the debounce timer, armed
\* DEBOUNCE_MS ahead, does not fire within MaxTime, and the save spawned by
\* New Chat has not yet run.
NextStream ==
    \/ \E key_empty \in BOOLEAN, open_fails \in BOOLEAN :
           submit_action(key_empty, open_fails)
    \/ \E index \in 0..(Len(messages) - 1),
          key_empty \in BOOLEAN, open_fails \in BOOLEAN :
           regenerate_action(index, key_empty, open_fails)
    \/ \E index \in 0..(Len(messages) - 1),
          key_empty \in BOOLEAN, open_fails \in BOOLEAN :
           handle_resubmit(index, key_empty, open_fails)
    \/ cancel_action
    \/ \E r \in RunIds : CancelBranch(r)
    \/ \E r \in RunIds : StreamContent(r)
    \/ \E r \in RunIds, usage \in Usages, model_info \in ModelInfos :
           StreamUsage(r, usage, model_info)
    \/ \E r \in RunIds : StreamError(r)
    \/ \E r \in RunIds : StreamEnd(r)
    \/ \E d \in Delays : Tick(d)
    \/ on_prev
    \/ \E id \in SessionIds : load_session(id)
    \/ create_new_session
    \/ load_session_list

SpecStream == Init /\ [][NextStream]_vars

\* The requests of one session: the user actions that start and cancel a
\* run and the steps of the runs, without session navigation (which leaves
\* the position and the receiver of every run as they are).
NextRun ==
    \/ \E key_empty \in BOOLEAN, open_fails \in BOOLEAN :
           submit_action(key_empty, open_fails)
    \/ \E index \in 0..(Len(messages) - 1),
          key_empty \in BOOLEAN, open_fails \in BOOLEAN :
           regenerate_action(index, key_empty, open_fails)
    \/ \E index \in 0..(Len(messages) - 1),
          key_empty \in BOOLEAN, open_fails \in BOOLEAN :
           handle_resubmit(index, key_empty, open_fails)
    \/ cancel_action
    \/ \E r \in RunIds : CancelBranch(r)
    \/ \E r \in RunIds : StreamContent(r)
    \/ \E r \in RunIds, usage \in Usages, model_info \in ModelInfos :
           StreamUsage(r, usage, model_info)
    \/ \E r \in RunIds : StreamError(r)
    \/ \E r \in RunIds : StreamEnd(r)
    \/ \E d \in Delays : Tick(d)

\* The executor polls a task that has been woken: a run whose receiver has
\* resolved takes its cancel branch.  Nothing obliges the stream to yield.
SpecRunFair ==
    Init /\ [][NextRun]_vars /\ \A r \in RunIds : WF_vars(CancelBranch(r))

\* The session manager: the user acts when the database has answered and no
\* request is in flight; a request runs to its end while time passes; the
\* debounce timer fires and the saves are carried out.
NoTask == loads = {} /\ ~list_pending /\ explicit_saves = {}

NoRun == \A r \in RunIds : ~InFlight(r)

\* a selected model whose entry in the cached model list has both prices
PricedModelInfos ==
    { Some([prompt_cost_usd_pm |-> Some(3), completion_cost_usd_pm |-> Some(15)]) }

NextSession ==
    \/ NoTask /\ submit_action(FALSE, FALSE)
    \/ \E r \in RunIds : StreamContent(r)
    \/ \E r \in RunIds, usage \in Usages, model_info \in PricedModelInfos :
           StreamUsage(r, usage, model_info)
    \/ \E r \in RunIds : StreamEnd(r)
    \/ \E d \in Pauses : NoTask /\ Pause(d)
    \/ NoTask /\ NoRun /\ on_prev
    \/ NoTask /\ NoRun /\ on_next
    \/ \E id \in SessionIds : NoTask /\ NoRun /\ session_load_request(id)
    \/ \E id \in SessionIds : load_session(id)
    \/ NoTask /\ NoRun /\ create_new_session
    \/ debounced_save_session
    \/ \E s \in explicit_saves : save_old_session(s)
    \/ load_session_list

SpecSession == Init /\ [][NextSession]_vars

\* The session manager with a store whose operations may fail.
NextSessionFail ==
    \/ NextSession
    \/ \E id \in SessionIds : load_session_failed(id)
    \/ load_session_list_failed
    \/ \E stage \in SaveStages : debounced_save_session_failed(stage)
    \/ \E s \in explicit_saves, stage \in SaveStages :
           save_old_session_failed(s, stage)

SpecSessionFail == Init /\ [][NextSessionFail]_vars

\* ------------------------------------------------------ the store alone
\* the keys and timestamps of the records the callers save
StoreKeys == 1..MaxKeys

Stamps == 1..MaxStamp

StoredLists ==
    { << Message("user", UserText, 0) >>,
      << Message("user", UserText, 0), Message("assistant", OldAnswer, 0) >> }

Sessions ==
    { ChatSession(id, msgs, 0, t) :
          id \in StoreKeys, msgs \in StoredLists, t \in Stamps }

\* no request, no session, an empty object store, database d
InitStoreWith(d) ==
    /\ messages = <<>>
    /\ runs = [ r \in RunIds |-> IdleRun ]
    /\ next_run = 1
    /\ cancel_sender = None
    /\ input_disabled = FALSE
    /\ error = None
    /\ now = 0
    /\ current_session_id = NoSession
    /\ next_id = FirstFreshId
    /\ store = [ id \in StoreKeys |-> None ]
    /\ db = d
    /\ result = NoResult
    /\ saving = <<>>
    /\ pending_save = None
    /\ explicit_saves = {}
    /\ loads = {}
    /\ list_pending = TRUE
    /\ sorted_session_ids = <<>>
    /\ current_session_index = None

storeFrame ==
    << messages, runs, next_run, cancel_sender, input_disabled, error, now,
       current_session_id, next_id, pending_save, explicit_saves, saving, loads,
       list_pending, sorted_session_ids, current_session_index >>

\* get_db().await
Open ==
    /\ db' = get_db(db, store)
    /\ result' = Result("open", TRUE, None)
    /\ UNCHANGED store
    /\ UNCHANGED storeFrame

\* persistence::save_session(&session).await
Save(session) ==
    /\ LET saved == save_session(db, store, session)
       IN  store' = saved.store /\ db' = saved.db
    /\ result' = Result("save", TRUE, Some(session))
    /\ UNCHANGED storeFrame

\* persistence::load_session(session_id).await: Ok(None) when absent
Load(session_id) ==
    /\ db' = get_db(db, store)
    /\ result' = Result("load", TRUE, store[session_id])
    /\ UNCHANGED store
    /\ UNCHANGED storeFrame

\* persistence::get_all_session_keys_sorted_by_update().await: Err when
\* the object store has no updated_at_ms index
ListKeys ==
    /\ db' = get_db(db, store)
    /\ result' =
           IF db'.index = None THEN Result("list", FALSE, None)
           ELSE Result("list", TRUE,
                       Some(get_all_session_keys_sorted_by_update(db'.index[1])))
    /\ UNCHANGED store
    /\ UNCHANGED storeFrame

\* persistence::delete_session(session_id).await
DeleteCall(session_id) ==
    /\ LET deleted == delete_session(db, store, session_id)
       IN  store' = deleted.store /\ db' = deleted.db
    /\ result' = Result("delete", TRUE, None)
    /\ UNCHANGED storeFrame

\* persistence::save_session(&session).await returns Err
SaveFailed(session, stage) ==
    /\ LET saved == save_session_failed(db, store, session, stage)
       IN  store' = saved.store /\ db' = saved.db
    /\ result' = Result("save", FALSE, Some(session))
    /\ UNCHANGED storeFrame

NextStore ==
    \/ Open
    \/ \E session \in Sessions : Save(session)
    \/ \E id \in StoreKeys : Load(id)
    \/ ListKeys
    \/ \E id \in StoreKeys : DeleteCall(id)

\* the database is absent or was created by get_db
InitStore ==
    \E d \in { Database(0, FALSE, None), Database(DB_VERSION, TRUE, Some({})) } :
        InitStoreWith(d)

SpecStore == InitStore /\ [][NextStore]_vars

\* the store with saves that may fail
NextStoreFail ==
    \/ NextStore
    \/ \E session \in Sessions, stage \in SaveStages : SaveFailed(session, stage)

SpecStoreFail == InitStore /\ [][NextStoreFail]_vars

\* the database may also come from an older schema: the object store
\* exists at the same version, without the updated_at_ms index
InitStoreSchema ==
    \E d \in { Database(0, FALSE, None), Database(DB_VERSION, TRUE, Some({})),
                Database(DB_VERSION, TRUE, None) } :
        InitStoreWith(d)

SpecStoreSchema == InitStoreSchema /\ [][NextStore]_vars

\* ------------------------------------------- the request that is sent
\* the longest message list a request is built from
MaxHistory == 4

\* SystemPrompt { name, prompt }
SystemPrompt(name, prompt) == [ name |-> name, prompt |-> prompt ]

PromptText == <<7>>
OtherPromptText == <<8>>

\* names the selected-prompt signal may hold; "gone" is in no catalog
PromptNames == { "coder", "empty", "gone" }

SelectedPromptNames == { None } \cup { Some(n) : n \in PromptNames }

\* catalogs of system prompts: empty, one prompt, one prompt with an empty
\* text, and two prompts of the same name
Catalogs ==
    { <<>>,
      << SystemPrompt("coder", PromptText) >>,
      << SystemPrompt("coder", PromptText), SystemPrompt("empty", <<>>) >>,
      << SystemPrompt("empty", <<>>), SystemPrompt("coder", OtherPromptText),
         SystemPrompt("coder", PromptText) >> }

\* system_prompts.iter().find(|sp| sp.name == name)
RECURSIVE Find(_, _)
Find(system_prompts, name) ==
    IF system_prompts = <<>> THEN None
    ELSE IF Head(system_prompts).name = name THEN Some(Head(system_prompts))
    ELSE Find(Tail(system_prompts), name)

\* a lookup that trusts the name without consulting the catalog
selected_prompt_unchecked(system_prompts, prompt_name) ==
    IF prompt_name = None THEN None
    ELSE Some(SystemPrompt(prompt_name[1], <<>>))

\* the selected_prompt memo
selected_prompt(system_prompts, prompt_name) ==
    IF prompt_name = None THEN None ELSE Find(system_prompts, prompt_name[1])

\* a chat message with the fields that name its prompt
ChatMessage(role, content, prompt_name, system_prompt_content) ==
    [ role |-> role, content |-> content, cost |-> None, run |-> 0,
      prompt_name |-> prompt_name,
      system_prompt_content |-> system_prompt_content ]

\* Message::to_llm
to_llm(m) == [ role |-> m.role, content |-> m.content ]

\* selected_prompt.get().map(|sp| sp.prompt).unwrap_or_default()
system_prompt_content(sp) == IF sp = None THEN <<>> ELSE sp[1].prompt

\* selected_prompt.get().map(|sp| sp.name.clone())
prompt_name_of(sp) == IF sp = None THEN None ELSE Some(sp[1].name)

\* selected_prompt.get().map(|sp| sp.prompt.clone())
prompt_text_of(sp) == IF sp = None THEN None ELSE Some(sp[1].prompt)

\* the system message heads the request whatever its text
messages_to_submit_always(sp, msgs) ==
    << ChatMessage("system", system_prompt_content(sp), prompt_name_of(sp),
                   prompt_text_of(sp)) >> \o msgs

\* the system message, if the prompt has text, then the list as it is
messages_to_submit(sp, msgs) ==
    ( IF system_prompt_content(sp) # <<>>
      THEN << ChatMessage("system", system_prompt_content(sp),
                          prompt_name_of(sp), prompt_text_of(sp)) >>
      ELSE <<>> ) \o msgs

\* the placeholder handle_llm_request appends
response_message(sp) ==
    ChatMessage("assistant", <<>>, prompt_name_of(sp), prompt_text_of(sp))

promptFrame ==
    << runs, next_run, cancel_sender, input_disabled, now, current_session_id,
       next_id, store, db, pending_save, explicit_saves, saving, loads, list_pending,
       sorted_session_ids, current_session_index >>

\* the body of execute_llm_request after prepare_messages, up to the call
\* that opens the stream: m1 is the list prepare_messages left
request_with_prompt(m1, prompt_name, system_prompts, key_empty) ==
    LET sp == selected_prompt(system_prompts, prompt_name)
        submitted == messages_to_submit(sp, m1)
        sent == [ i \in 1..Len(submitted) |-> to_llm(submitted[i]) ]
        inputs == [ prompt_name |-> prompt_name,
                    system_prompts |-> system_prompts ]
    IN  /\ Len(m1) < MaxHistory
        /\ IF key_empty
           THEN /\ messages' = m1
                /\ error' = ApiKeyError
                /\ result' = Result("request", FALSE, Some(inputs))
           ELSE /\ messages' = Append(m1, response_message(sp))
                /\ error' = None
                /\ result' = Result("request", TRUE,
                                    Some([ inputs |-> inputs, sent |-> sent ]))
        /\ UNCHANGED promptFrame

\* no placeholder is waiting for its answer
Answered ==
    IF messages = <<>> THEN TRUE ELSE messages[Len(messages)].content # <<>>

\* submit_action with text in the input field
submit_with_prompt(prompt_name, system_prompts, key_empty) ==
    /\ Answered
    /\ request_with_prompt(
           Append(messages, ChatMessage("user", UserText, None, None)),
           prompt_name, system_prompts, key_empty)

\* regenerate_action(index) on an assistant message
regenerate_with_prompt(index, prompt_name, system_prompts, key_empty) ==
    /\ Answered
    /\ index + 1 \in DOMAIN messages
    /\ messages[index + 1].role = "assistant"
    /\ request_with_prompt(Drain(messages, index), prompt_name,
                           system_prompts, key_empty)

\* the stream delivers the answer and ends
answer_with_prompt ==
    /\ ~Answered
    /\ messages' = SetLastContent(messages, OldAnswer)
    /\ UNCHANGED << error, result >>
    /\ UNCHANGED promptFrame

NextPrompt ==
    \/ \E prompt_name \in SelectedPromptNames, system_prompts \in Catalogs,
          key_empty \in BOOLEAN :
           submit_with_prompt(prompt_name, system_prompts, key_empty)
    \/ \E index \in 0..(MaxHistory - 1), prompt_name \in SelectedPromptNames,
          system_prompts \in Catalogs, key_empty \in BOOLEAN :
           regenerate_with_prompt(index, prompt_name, system_prompts,
                                  key_empty)
    \/ answer_with_prompt

InitPrompt == InitStoreWith(Database(DB_VERSION, TRUE, Some({})))

SpecPrompt == InitPrompt /\ [][NextPrompt]_vars

\* The requests of the sessions with loads asked for by the URL, which may
\* name a session the store does not hold; the stream carries content only.
NextStreamLoad ==
    \/ \E key_empty \in BOOLEAN, open_fails \in BOOLEAN :
           submit_action(key_empty, open_fails)
    \/ \E index \in 0..(Len(messages) - 1),
          key_empty \in BOOLEAN, open_fails \in BOOLEAN :
           regenerate_action(index, key_empty, open_fails)
    \/ \E index \in 0..(Len(messages) - 1),
          key_empty \in BOOLEAN, open_fails \in BOOLEAN :
           handle_resubmit(index, key_empty, open_fails)
    \/ cancel_action
    \/ \E r \in RunIds : CancelBranch(r)
    \/ \E r \in RunIds : StreamContent(r)
    \/ \E r \in RunIds : StreamError(r)
    \/ \E r \in RunIds : StreamEnd(r)
    \/ \E id \in SessionIds : session_load_request(id)
    \/ \E id \in SessionIds : load_session(id)
    \/ create_new_session
    \/ load_session_list

SpecStreamLoad == Init /\ [][NextStreamLoad]_vars

\* ------------------------------------------- a save in its two awaits
\* A save task first awaits persistence::load_session and builds its record
\* from what it read, then awaits persistence::save_session.  The database
\* serves the puts in the order in which they were asked for.

\* the debounce timer has fired and the task's read has returned: the
\* record is built and handed to save_session
debounced_save_load ==
    /\ Quiescent
    /\ pending_save # None
    /\ now >= pending_save[1].due
    /\ saving' =
           IF ShouldSave(pending_save[1].session_id, pending_save[1].messages)
           THEN Append(saving, SaveRecord(store, pending_save[1].session_id,
                                          pending_save[1].messages, now))
           ELSE saving
    /\ pending_save' = None
    /\ UNCHANGED chatVars
    /\ UNCHANGED << now, current_session_id, next_id, store, db, result,
                    explicit_saves, loads, list_pending, sorted_session_ids,
                    current_session_index >>

\* the read of the save spawned by New Chat has returned
save_old_session_load(s) ==
    /\ Quiescent
    /\ s \in explicit_saves
    /\ saving' = Append(saving,
                        SaveRecord(store, s.session_id, s.messages, now))
    /\ explicit_saves' = explicit_saves \ {s}
    /\ UNCHANGED chatVars
    /\ UNCHANGED << now, current_session_id, next_id, store, db, result,
                    pending_save, loads, list_pending, sorted_session_ids,
                    current_session_index >>

\* save_session of the oldest built record returns Ok: the record is
\* stored and load_session_list is called
save_session_put ==
    /\ Quiescent
    /\ saving # <<>>
    /\ LET saved == save_session(db, store, Head(saving))
       IN  store' = saved.store /\ db' = saved.db
    /\ saving' = Tail(saving)
    /\ list_pending' = TRUE
    /\ UNCHANGED chatVars
    /\ UNCHANGED << now, current_session_id, next_id, result, pending_save,
                    explicit_saves, loads, sorted_session_ids,
                    current_session_index >>

\* The sessions with saves that other events may come between: the clock
\* advances and New Chat is clicked while a save has read and not written.
NextSaveRace ==
    \/ submit_action(FALSE, FALSE)
    \/ \E r \in RunIds : StreamContent(r)
    \/ \E r \in RunIds : StreamEnd(r)
    \/ \E d \in Pauses : Pause(d)
    \/ NoRun /\ on_prev
    \/ \E id \in SessionIds : load_session(id)
    \/ NoRun /\ create_new_session
    \/ debounced_save_load
    \/ \E s \in explicit_saves : save_old_session_load(s)
    \/ save_session_put
    \/ load_session_list

\* the state the initial Effect leaves in a browser that holds no session:
\* load_session_list is under way and create_new_session has minted the id
InitCreated ==
    /\ messages = <<>>
    /\ runs = [ r \in RunIds |-> IdleRun ]
    /\ next_run = 1
    /\ cancel_sender = None
    /\ input_disabled = FALSE
    /\ error = None
    /\ now = 0
    /\ current_session_id \in OldSessionIds
    /\ next_id = FirstFreshId
    /\ store = [ id \in SessionIds |-> None ]
    /\ db = Database(DB_VERSION, TRUE, Some(IndexOf(store)))
    /\ result = NoResult
    /\ saving = <<>>
    /\ pending_save = None
    /\ explicit_saves = {}
    /\ loads = {}
    /\ list_pending = TRUE
    /\ sorted_session_ids = <<>>
    /\ current_session_index = None

InitSaveRace == Init \/ InitCreated

SpecSaveRace == InitSaveRace /\ [][NextSaveRace]_vars

\* Navigation with every task free to complete at any time: loads, list
\* reloads, saves and New Chat overlap each other and the requests.
NextNav ==
    \/ submit_action(FALSE, FALSE)
    \/ \E r \in RunIds : StreamEnd(r)
    \/ \E d \in Pauses : Pause(d)
    \/ on_prev
    \/ on_next
    \/ \E id \in SessionIds : session_load_request(id)
    \/ \E id \in SessionIds : load_session(id)
    \/ create_new_session
    \/ debounced_save_session
    \/ \E s \in explicit_saves : save_old_session(s)
    \/ load_session_list
    \/ load_session_list_failed

SpecNav == Init /\ [][NextNav]_vars

\* ================================================================ claims
OwnMessages(m, r) == { i \in DOMAIN m : m[i].run = r }

\* the messages of m that run r did not append
Others(m, r) == SelectSeq(m, LAMBDA x : x.run # r)

\* C1: when the user cancels a run in flight that has received at least one
\* content delta, the run ends cancelled and the message list is the list
\* as it was just before the run appended its placeholder.
C1_CancelRestoresList ==
    [][\A r \in RunIds :
          (CancelBranch(r) /\ runs[r].rx = "sent" /\ runs[r].received # <<>>)
              => /\ runs'[r].outcome = "cancelled"
                 /\ messages' = runs[r].pre]_vars

\* C2: every step of a run (content write, cost write, removal on cancel or
\* error) leaves every message the run did not append as it was.
C2_ExclusiveTarget ==
    [][\A r \in RunIds :
          RunStep(r) => Others(messages', r) = Others(messages, r)]_vars

\* C3: at most one run of handle_llm_request is in flight.
C3_AtMostOneInFlight == Cardinality({ r \in RunIds : InFlight(r) }) <= 1

\* C4: once another session is current, no step of a run started for the
\* previous session changes the message list, and no stored record holds
\* content of a run that was started for another session.
C4_NoStaleMutation ==
    /\ [][\A r \in RunIds :
             (RunStep(r) /\ runs[r].session # current_session_id)
                 => messages' = messages]_vars
    /\ [](\A id \in StoredIds(store) :
             \A i \in DOMAIN store[id][1].messages :
                 \A k \in DOMAIN store[id][1].messages[i].content :
                     LET token == store[id][1].messages[i].content[k]
                     IN  token >= 10 => runs[token \div 10].session = id)

\* C5: while a run is in flight, if its assistant message carries a cost
\* then the usage report has arrived and the message's visible content
\* holds every delta that arrived before the usage report.
C5_UsageAfterContent ==
    \A r \in RunIds : \A i \in OwnMessages(messages, r) :
        (InFlight(r) /\ messages[i].cost # None)
            => /\ runs[r].usage_at # None
               /\ IsPrefix(SubSeq(runs[r].received, 1, runs[r].usage_at[1]),
                           messages[i].content)

\* a run in flight whose message got its cost after a buffered delta
C5_Witness ==
    \E r \in RunIds : \E i \in OwnMessages(messages, r) :
        /\ InFlight(r)
        /\ messages[i].cost # None
        /\ runs[r].usage_at = Some(2)
        /\ Len(messages[i].content) = 2

\* C6: when the stream of a run ends normally, the visible content of the
\* run's assistant message is the concatenation, in arrival order, of all
\* the deltas the stream emitted.
C6_CompletedContent ==
    [][\A r \in RunIds :
          StreamEnd(r) =>
              \A i \in OwnMessages(messages', r) :
                  messages'[i].content = runs[r].received]_vars

\* a completed run whose message holds two deltas and no cost (no usage
\* report arrived, the second delta was flushed after the loop)
C6_Witness ==
    \E r \in RunIds : \E i \in OwnMessages(messages, r) :
        /\ runs[r].outcome = "completed"
        /\ Len(messages[i].content) = 2
        /\ messages[i].cost = None

\* the content step of run r flushed the buffer to the visible message
FlushedNow(r) ==
    /\ runs'[r].buffer = <<>>
    /\ runs'[r].accumulated_content = runs[r].received \o Delta(r, Len(runs[r].received) + 1)
    /\ messages' = SetLastContent(messages, runs'[r].accumulated_content)

\* the content step of run r only added the delta to the buffer
AccumulatedNow(r) ==
    /\ runs'[r].buffer = runs[r].buffer \o Delta(r, Len(runs[r].received) + 1)
    /\ runs'[r].accumulated_content = runs[r].accumulated_content
    /\ messages' = messages

\* C7 as stated: a content delta is flushed exactly when it is the first
\* one or at least 200 ms (boundary included) have passed since the last
\* flush; otherwise it is only accumulated.
C7_FlushAtLeastThrottle ==
    [][\A r \in RunIds :
          StreamContent(r) =>
              IF \/ runs[r].last_update_time = None
                 \/ now - runs[r].last_update_time[1] >= THROTTLE_MS
              THEN FlushedNow(r) ELSE AccumulatedNow(r)]_vars

\* C7 amended: a content delta is flushed exactly when it is the first one
\* or more than 200 ms have passed since the last flush; at exactly 200 ms
\* and below it is only accumulated and the visible content is unchanged.
C7_FlushAboveThrottle ==
    [][\A r \in RunIds :
          StreamContent(r) =>
              IF \/ runs[r].last_update_time = None
                 \/ now - runs[r].last_update_time[1] > THROTTLE_MS
              THEN FlushedNow(r) ELSE AccumulatedNow(r)]_vars

\* a delta that arrived exactly 200 ms after the last flush is in the buffer
C7_Witness ==
    \E r \in RunIds :
        /\ InFlight(r)
        /\ runs[r].last_elapsed = Some(THROTTLE_MS)
        /\ runs[r].buffer # <<>>

\* C8 as stated: after the first update, every visible content update of a
\* run (by a delta, by the flush before a usage report, by the final flush)
\* comes at least 200 ms after the previous one.
C8_AllUpdatesThrottled ==
    [][\A r \in RunIds :
          ( /\ runs[r].last_visible # None
            /\ \/ StreamContent(r) /\ runs'[r].buffer = <<>>
               \/ StreamEnd(r) /\ runs[r].buffer # <<>>
               \/ /\ runs[r].buffer # <<>>
                  /\ \E usage \in Usages, model_info \in ModelInfos :
                         StreamUsage(r, usage, model_info) )
              => now - runs[r].last_visible[1] >= THROTTLE_MS]_vars

\* C8 amended: after the first update, every visible content update caused
\* by a content delta comes at least 200 ms after the previous update
\* caused by a content delta.
C8_DeltaUpdatesThrottled ==
    [][\A r \in RunIds :
          ( /\ runs[r].last_update_time # None
            /\ StreamContent(r)
            /\ messages' # messages )
              => now - runs[r].last_update_time[1] >= THROTTLE_MS]_vars

\* a second delta was flushed by the throttle, 300 ms after the first
C8_Witness ==
    \E r \in RunIds : \E i \in OwnMessages(messages, r) :
        /\ InFlight(r)
        /\ runs[r].last_elapsed = Some(THROTTLE_MS + 100)
        /\ runs[r].last_update_time = Some(now)
        /\ Len(messages[i].content) = 2

\* C9: while a run is in flight, the visible content of its assistant
\* message is a prefix of the deltas received so far, and the visible
\* content followed by the unflushed buffer is exactly those deltas.
C9_OrderedFlush ==
    \A r \in RunIds : \A i \in OwnMessages(messages, r) :
        InFlight(r)
            => /\ IsPrefix(messages[i].content, runs[r].received)
               /\ messages[i].content \o runs[r].buffer = runs[r].received

\* a run in flight with one delta visible and one in the buffer
C9_Witness ==
    \E r \in RunIds : \E i \in OwnMessages(messages, r) :
        /\ InFlight(r)
        /\ messages[i].content # <<>>
        /\ runs[r].buffer # <<>>

\* the cost of one side: zero when the price is missing
ExpectedSide(price, tokens) == IF price = None THEN 0 ELSE price[1] * tokens

ExpectedCost(usage, prompt_price, completion_price) ==
    Some([ prompt |-> ExpectedSide(prompt_price, usage.prompt_tokens),
           completion |-> ExpectedSide(completion_price, usage.completion_tokens) ])

LastCost(m) == m[Len(m)].cost

\* C10 as stated: a usage report sets the cost of the assistant message to
\* tokens times price per side, with zero for a side whose price is
\* missing and for a model that has no entry in the cached model list.
C10_CostAlwaysSet ==
    [][\A r \in RunIds, usage \in Usages, model_info \in ModelInfos :
          (StreamUsage(r, usage, model_info) /\ messages # <<>>)
              => LastCost(messages') =
                     IF model_info = None
                     THEN ExpectedCost(usage, None, None)
                     ELSE ExpectedCost(usage, model_info[1].prompt_cost_usd_pm,
                                       model_info[1].completion_cost_usd_pm)]_vars

\* C10 amended: when the model has an entry in the cached model list the
\* cost is set to tokens times price per side, zero for a side whose price
\* is missing; when the model has no entry the cost is left as it was.
C10_CostWhenModelKnown ==
    [][\A r \in RunIds, usage \in Usages, model_info \in ModelInfos :
          (StreamUsage(r, usage, model_info) /\ messages # <<>>)
              => LastCost(messages') =
                     IF model_info = None
                     THEN LastCost(messages)
                     ELSE ExpectedCost(usage, model_info[1].prompt_cost_usd_pm,
                                       model_info[1].completion_cost_usd_pm)]_vars

\* a message of a run with a priced prompt side and an unpriced completion side
C10_Witness ==
    \E r \in RunIds : \E i \in OwnMessages(messages, r) :
        messages[i].cost = Some(MessageCost(30, 0))

\* a user action that starts a request
StartsRequest ==
    \/ \E key_empty \in BOOLEAN, open_fails \in BOOLEAN :
           submit_action(key_empty, open_fails)
    \/ \E index \in 0..(Len(messages) - 1),
          key_empty \in BOOLEAN, open_fails \in BOOLEAN :
           \/ regenerate_action(index, key_empty, open_fails)
           \/ handle_resubmit(index, key_empty, open_fails)

\* C11: when the stream of a run yields an error and no user action has
\* interfered with the run, the message list is again the list as it was
\* before the placeholder was appended, the error slot holds the stream
\* error, the run has ended and the busy flag is cleared; when opening the
\* request fails no placeholder of the run is left, the error slot holds
\* the request error and the busy flag is cleared; a run is started only
\* by submit, regenerate or edit-and-resubmit.
C11_ErrorDiscardsPartial ==
    /\ [][\A r \in RunIds :
             (StreamError(r) /\ ~runs[r].interfered)
                 => /\ messages' = runs[r].pre
                    /\ error' = Some("stream_error")
                    /\ runs'[r].pc = "done"
                    /\ runs'[r].outcome = "error"
                    /\ input_disabled' = FALSE
                    /\ next_run' = next_run]_vars
    /\ [][\A r \in RunIds :
             (runs[r].pc = "idle" /\ runs'[r].outcome = "error")
                 => /\ OwnMessages(messages', r) = {}
                    /\ messages' # <<>>
                    /\ messages'[Len(messages')].role = "user"
                    /\ error' = Some("request_error")
                    /\ runs'[r].pc = "done"
                    /\ input_disabled' = FALSE]_vars
    /\ [][next_run' # next_run => StartsRequest]_vars

\* a run has ended with a stream error: the error is shown, the list ends
\* with the user message and the busy flag is cleared
C11_Witness ==
    \E r \in RunIds :
        /\ runs[r].outcome = "error"
        /\ error = Some("stream_error")
        /\ messages # <<>>
        /\ messages[Len(messages)].role = "user"
        /\ ~input_disabled

\* C12: when submit, regenerate or edit-and-resubmit is invoked with an
\* empty API key, the run never enters the stream loop and never has a
\* placeholder in the list, the error slot holds the missing-key message
\* and the busy flag is cleared.
C12_EmptyKeyRejected ==
    /\ [][\A open_fails \in BOOLEAN :
             ( \/ submit_action(TRUE, open_fails)
               \/ \E index \in 0..(Len(messages) - 1) :
                      \/ regenerate_action(index, TRUE, open_fails)
                      \/ handle_resubmit(index, TRUE, open_fails) )
                 => /\ runs'[next_run].pc = "done"
                    /\ runs'[next_run].outcome = "rejected"
                    /\ OwnMessages(messages', next_run) = {}
                    /\ error' = Some("no_api_key")
                    /\ input_disabled' = FALSE]_vars
    /\ [](\A r \in RunIds :
             runs[r].outcome = "rejected" => OwnMessages(messages, r) = {})

\* a request was rejected for its empty key
C12_Witness ==
    \E r \in RunIds :
        /\ runs[r].outcome = "rejected"
        /\ error = Some("no_api_key")
        /\ ~input_disabled

\* no run is in flight and one has completed or ended with an error
AfterRun ==
    /\ \A r \in RunIds : ~InFlight(r)
    /\ \E r \in RunIds : runs[r].outcome \in {"completed", "error"}

\* C13: cancel after a run has completed or ended with an error leaves the
\* message list, the error slot, the busy flag and the current session id
\* as they were; there is no sender left for it to use.
C13_CancelAfterEndNoOp ==
    /\ [][(cancel_action /\ AfterRun)
             => UNCHANGED << messages, error, input_disabled,
                             current_session_id >>]_vars
    /\ [](AfterRun => cancel_sender = None)

\* a completed run has left its answer in the list and nothing is in flight
C13_Witness ==
    /\ AfterRun
    /\ \E r \in RunIds : \E i \in OwnMessages(messages, r) :
           /\ runs[r].outcome = "completed"
           /\ messages[i].content # <<>>

\* C14: the busy flag is set exactly when some run is in flight.
C14_BusyIffInFlight ==
    input_disabled <=> (\E r \in RunIds : InFlight(r))

\* C15: a run whose cancel was sent while it waits for the stream ends
\* cancelled even if the stream never yields again, a run whose receiver
\* has resolved ends, and the step that ends a run (stream end, stream
\* error or cancel) leaves the busy flag cleared and no cancel sender.
C15_CancelObservedWhileWaiting ==
    /\ \A r \in RunIds :
           (InFlight(r) /\ runs[r].rx = "sent")
               ~> (runs[r].outcome = "cancelled")
    /\ \A r \in RunIds :
           (InFlight(r) /\ runs[r].rx # "pending") ~> ~InFlight(r)
    /\ [][\A r \in RunIds :
             (InFlight(r) /\ runs'[r].pc = "done")
                 => /\ input_disabled' = FALSE
                    /\ cancel_sender' = None]_vars

\* a run was cancelled before its stream had yielded anything: the list is
\* the user message alone and the flag and the sender are cleared
C15_Witness ==
    /\ runs[1].outcome = "cancelled"
    /\ runs[2].pc = "idle"
    /\ messages = << Message("user", UserText, 0) >>
    /\ ~input_disabled
    /\ cancel_sender = None

\* C16: a save leaves exactly the saved record under its session_id and
\* every other record as it was; saving the record that is already stored
\* changes neither the records nor the index; a load returns the record
\* stored under the id, or nothing when there is none; every record is
\* stored under its own session_id.
C16_SaveInsertOrReplace ==
    /\ [][\A session \in Sessions :
             Save(session)
                 => /\ store'[session.session_id] = Some(session)
                    /\ \A k \in StoreKeys \ {session.session_id} :
                           store'[k] = store[k]
                    /\ result'.ok
                    /\ (store[session.session_id] = Some(session)
                            => /\ store' = store
                               /\ db'.index = get_db(db, store).index)]_vars
    /\ [][\A id \in StoreKeys :
             Load(id) => /\ result'.ok
                         /\ result'.value = store[id]
                         /\ store' = store]_vars
    /\ [](\A id \in StoredIds(store) : store[id][1].session_id = id)

\* a record has been replaced: key 1 holds the two-message list saved at
\* stamp 2, and a load has returned it while key 2 holds another record
C16_Witness ==
    /\ result.op = "load"
    /\ result.value = store[1]
    /\ store[1] # None
    /\ store[1][1].updated_at_ms = 2
    /\ Len(store[1][1].messages) = 2
    /\ store[2] # None

\* keys is ordered by updated_at_ms descending in st
Descending(keys, st) ==
    \A i, j \in 1..Len(keys) :
        i < j => st[keys[i]][1].updated_at_ms >= st[keys[j]][1].updated_at_ms

\* C17: the listing returns the stored ids ordered by updated_at
\* descending; an id whose record has the strictly greatest updated_at is
\* first.
C17_ListedByRecency ==
    [][ListKeys
          => /\ result'.ok
             /\ Descending(result'.value[1], store)
             /\ \A id \in StoredIds(store) :
                    (\A o \in StoredIds(store) \ {id} :
                         store[o][1].updated_at_ms < store[id][1].updated_at_ms)
                        => result'.value[1][1] = id]_vars

\* three sessions with updated_at 2 < 3 < 4, the greatest stamp on key 1:
\* the listing is [1, 3, 2]
C17_Witness ==
    /\ result.op = "list"
    /\ result.value = Some(<< 1, 3, 2 >>)
    /\ store[1] # None /\ store[1][1].updated_at_ms = 4
    /\ store[3] # None /\ store[3][1].updated_at_ms = 3
    /\ store[2] # None /\ store[2][1].updated_at_ms = 2

\* C18: the listing holds exactly the ids that have a record, each once,
\* and the index holds one entry per record, under its current updated_at.
C18_IndexConsistent ==
    /\ [][ListKeys
             => /\ result'.ok
                /\ Len(result'.value[1]) = Cardinality(StoredIds(store))
                /\ { result'.value[1][i] : i \in 1..Len(result'.value[1]) }
                       = StoredIds(store)]_vars
    /\ [](db.index # None
             => db.index[1] =
                    { << store[id][1].updated_at_ms, id >> :
                          id \in StoredIds(store) })

\* the listing after key 2 has no record and key 1 holds a record with a
\* stamp other than the first
C18_Witness ==
    /\ result.op = "list"
    /\ result.value = Some(<< 1, 3 >>)
    /\ store[2] = None
    /\ store[1][1].updated_at_ms = 3
    /\ store[3][1].updated_at_ms = 1

\* C19: a delete removes the record of the id and its index entry, leaves
\* every other record and entry as it was and succeeds; deleting an id
\* that has no record succeeds and leaves the records as they were.
C19_DeleteIdempotent ==
    [][\A id \in StoreKeys :
          DeleteCall(id)
              => /\ store'[id] = None
                 /\ \A k \in StoreKeys \ {id} : store'[k] = store[k]
                 /\ result'.ok
                 /\ db'.index # None
                 /\ \A e \in db'.index[1] : e[2] # id
                 /\ \A e \in get_db(db, store).index[1] :
                        e[2] # id => e \in db'.index[1]
                 /\ (store[id] = None => store' = store)]_vars

\* a delete has left key 1 without a record while key 2 has one
C19_Witness ==
    /\ result.op = "delete"
    /\ store[1] = None
    /\ store[2] # None
    /\ db.index = Some({ << store[2][1].updated_at_ms, 2 >> })

\* C20: opening the store changes no record and succeeds, and after it the
\* object store and the updated_at_ms index exist.
C20_OpenIdempotent ==
    [][Open => /\ store' = store
               /\ result'.ok
               /\ db'.has_store
               /\ db'.index # None]_vars

\* the recency listing a later call returns
ListingOf(d, st) ==
    get_all_session_keys_sorted_by_update(get_db(d, st).index[1])

Mutation ==
    /\ messages' # messages
    /\ loads' = loads
    /\ messages' # <<>>
    /\ current_session_id' # NoSession

\* the debounce timer has fired
TimerFired == pending_save # None /\ pending_save' = None

\* C22: every mutation of the message list restarts the 2-second window
\* with the list as it is after the mutation; the debounced write happens
\* only when the window of the last mutation has elapsed, it is one write,
\* of the record of that session with the list after the last mutation, and
\* nothing but the timer and the save of New Chat writes to the store.
C22_DebounceCoalesces ==
    [][ /\ Mutation =>
              pending_save' = Some([ session_id |-> current_session_id',
                                     messages |-> messages',
                                     due |-> now + DEBOUNCE_MS ])
        /\ TimerFired =>
              LET sid == pending_save[1].session_id
              IN  /\ now >= pending_save[1].due
                  /\ store'[sid] # None
                  /\ store'[sid][1].messages = Stored(pending_save[1].messages)
                  /\ store'[sid][1].updated_at_ms = now
                  /\ \A k \in SessionIds \ {sid} : store'[k] = store[k]
        /\ store' # store =>
              TimerFired \/ explicit_saves' # explicit_saves ]_vars

\* a request whose last mutation happened at 1000 ms has streamed both
\* deltas, and the one write, at 3000 ms, carries the complete answer
C22_Witness ==
    \E id \in SessionIds :
        /\ store[id] # None
        /\ store[id][1].created_at_ms = 1000 + DEBOUNCE_MS
        /\ store[id][1].updated_at_ms = 1000 + DEBOUNCE_MS
        /\ Len(store[id][1].messages) = 2
        /\ store[id][1].messages[2].content = Delta(1, 1) \o Delta(1, 2)
        /\ store[id][1].messages[2].cost # None
        /\ pending_save = None

\* no write is scheduled or under way and no request is in flight
Settled == pending_save = None /\ explicit_saves = {} /\ NoRun

\* C23: eventual durability per session.  Once activity has settled, every
\* session in which a request ran to completion (its list then holds the
\* user message and the answer) has a record under its id that holds at
\* least these two messages.
C23_EventualDurability ==
    Settled =>
        \A r \in RunIds :
            runs[r].pc = "done" /\ runs[r].outcome = "completed" =>
                /\ store[runs[r].session] # None
                /\ Len(store[runs[r].session][1].messages) >= 2

Unwritten(st) ==
    \A id \in SessionIds : st[id] = None \/ st[id] = Some(OldSession(id))

\* C25 as stated: no record with an empty message list is in the store, and
\* as long as no message has been appended (no request was started) the
\* stored records are the ones the store held at the start.
C25_NoWriteWithoutAppend ==
    /\ \A id \in SessionIds : store[id] # None => store[id][1].messages # <<>>
    /\ next_run = 1 => Unwritten(store)

\* C25 as amended: no record with an empty message list is in the store and
\* no such write is scheduled; only the debounce timer and the save of New
\* Chat write; and as long as no message has been appended the stored ids,
\* their message lists and their created_at are those of the start (New
\* Chat rewrites the record of a loaded session with a new updated_at).
C25_NoEmptyWrite ==
    /\ [](/\ \A id \in SessionIds :
                store[id] # None => store[id][1].messages # <<>>
          /\ pending_save # None => pending_save[1].messages # <<>>
          /\ \A s \in explicit_saves : s.messages # <<>>
          /\ next_run = 1 =>
                \A id \in SessionIds :
                    /\ store[id] # None => id \in OldSessionIds
                    /\ store[id] # None =>
                          /\ store[id][1].messages = OldSession(id).messages
                          /\ store[id][1].created_at_ms =
                                 OldSession(id).created_at_ms)
    /\ [][ store' # store =>
              TimerFired \/ explicit_saves' # explicit_saves ]_vars

\* New Chat after a loaded session, no message appended: the new session
\* has an id and an empty list and is not in the store two seconds later;
\* the loaded session has been written again
C25_Witness ==
    /\ next_run = 1
    /\ current_session_id \notin OldSessionIds \cup {NoSession}
    /\ messages = <<>>
    /\ now >= DEBOUNCE_MS
    /\ store[current_session_id] = None
    /\ \E id \in OldSessionIds :
           store[id] # None /\ store[id][1].updated_at_ms >= 0
    /\ Settled

\* C26: the current session id changes only when the first submit of a
\* session without an id mints a fresh one, when new_session makes the
\* session Empty (no id), or when a load makes the loaded session current;
\* no other submit, regenerate, cancel, stream end or stream error changes
\* it.
C26_MintedByFirstSubmit ==
    [][ current_session_id' # current_session_id =>
          \/ /\ current_session_id = NoSession
             /\ next_run' = next_run + 1
             /\ current_session_id' = next_id
          \/ /\ next_run' = next_run
             /\ current_session_id' = NoSession
          \/ /\ loads' # loads
             /\ current_session_id' \in loads ]_vars

\* C27: when the load_session task finds no record under the requested id,
\* the error slot reports it and the current session becomes Empty: no
\* session id, an empty message list.
C27_NotFoundEntersEmpty ==
    [][ \A id \in SessionIds :
          id \in loads /\ id \notin loads' /\ store[id] = None =>
              /\ error' = Some("not_found")
              /\ current_session_id' = NoSession
              /\ messages' = <<>> ]_vars

\* C28: the current session at position i (counted from 0) of the recency
\* list, newest first.  Prev starts the load of the session at position
\* i+1, next the load of the session at position i-1, and the load makes
\* that session current with its stored list; at the last position prev
\* does nothing, at position 0 next does nothing.
C28_PrevOlderNextNewer ==
    /\ [](/\ ~list_pending =>
                /\ sorted_session_ids = ListingOf(db, store)
                /\ Descending(sorted_session_ids, store)
          /\ current_session_index # None =>
                /\ current_session_index[1] < Len(sorted_session_ids)
                /\ sorted_session_ids[current_session_index[1] + 1] =
                       current_session_id
                /\ current_session_index[1] + 1 = Len(sorted_session_ids) =>
                       ~ENABLED on_prev
                /\ current_session_index[1] = 0 => ~ENABLED on_next)
    /\ [][ /\ on_prev /\ current_session_index # None =>
                /\ current_session_index[1] + 1 < Len(sorted_session_ids)
                /\ loads' = loads \cup
                       {sorted_session_ids[current_session_index[1] + 2]}
                /\ UNCHANGED << current_session_id, messages, error >>
           /\ on_next =>
                /\ current_session_index[1] >= 1
                /\ loads' = loads \cup
                       {sorted_session_ids[current_session_index[1]]}
                /\ UNCHANGED << current_session_id, messages, error >>
           /\ \A id \in SessionIds :
                id \in loads /\ id \notin loads' /\ store[id] # None =>
                    /\ current_session_id' = id
                    /\ messages' = store[id][1].messages
                    /\ current_session_index' =
                           Position(sorted_session_ids, id) ]_vars

\* two stored sessions; the older one is current, at the last position
C28_Witness ==
    /\ Len(sorted_session_ids) = 2
    /\ current_session_index = Some(1)
    /\ current_session_id = sorted_session_ids[2]
    /\ store[sorted_session_ids[1]][1].updated_at_ms >
           store[sorted_session_ids[2]][1].updated_at_ms
    /\ messages = store[current_session_id][1].messages
    /\ ~list_pending
    /\ loads = {}
    /\ ENABLED on_next

\* a task of the manager gets Err from the store
StorageFailure ==
    \/ \E id \in SessionIds : load_session_failed(id)
    \/ load_session_list_failed
    \/ \E stage \in SaveStages : debounced_save_session_failed(stage)
    \/ \E s \in explicit_saves, stage \in SaveStages :
           save_old_session_failed(s, stage)

\* C29: a storage failure in a store operation of the manager (open, load,
\* save, index read) is reported in the error slot and leaves the current
\* session id and the message list as they were.
C29_StorageFailureSurfaced ==
    [][ StorageFailure =>
          /\ error' # None
          /\ error' \in { Some("load_error"), Some("list_error"),
                          Some("save_error") }
          /\ UNCHANGED << current_session_id, messages >> ]_vars

\* the answer of the scenario: both deltas, the cost of usage {10, 5} at
\* the prices of the selected model
ScenarioAnswer(r) ==
    [ Message("assistant", Delta(r, 1) \o Delta(r, 2), r) EXCEPT
        !.cost = ExpectedCost([prompt_tokens |-> 10, completion_tokens |-> 5],
                              Some(3), Some(15)) ]

\* C30: end to end.  A submit on a session without messages, with a valid
\* key, leaves a session id that has no record yet and exactly the user
\* message and an empty assistant placeholder.  When the stream has
\* yielded two deltas, then the usage {10, 5}, and ends, the list is the
\* user message and one assistant message with both deltas in order and
\* the cost at the model's prices.  Once the debounce window has passed
\* (the timer has fired) with that session still current and its list not
\* replaced by a load, the store holds exactly one record written by this
\* visit: under that id, with the list.
C30_EndToEnd ==
    /\ [][ /\ next_run' = next_run + 1 /\ messages = <<>> =>
                /\ current_session_id' # NoSession
                /\ store[current_session_id'] = None
                /\ current_session_id = NoSession =>
                       current_session_id' = next_id
                /\ messages' = << Message("user", UserText, 0),
                                  Message("assistant", <<>>, next_run) >>
           /\ \A r \in RunIds :
                /\ InFlight(r)
                /\ runs'[r].outcome = "completed"
                /\ runs[r].pre = << Message("user", UserText, 0) >>
                /\ runs[r].received = Delta(r, 1) \o Delta(r, 2)
                /\ runs[r].usage_at = Some(2)
                => messages' = << Message("user", UserText, 0),
                                  ScenarioAnswer(r) >> ]_vars
    /\ [](/\ Settled
          /\ next_run = 2
          /\ runs[1].outcome = "completed"
          /\ current_session_id = runs[1].session
          /\ current_session_id \notin OldSessionIds
          /\ messages # <<>>
          /\ messages[Len(messages)].run = 1
          => /\ store[current_session_id] # None
             /\ store[current_session_id][1].messages = Stored(messages)
             /\ Len(messages) = 2
             /\ StoredIds(store) \ OldSessionIds = {current_session_id})

\* the scenario has run: the one record of the store holds the user message
\* and the answer "Hi there" with its cost
C30_Witness ==
    /\ Settled
    /\ next_run = 2
    /\ runs[1].outcome = "completed"
    /\ current_session_id = runs[1].session
    /\ StoredIds(store) = {current_session_id}
    /\ messages = << Message("user", UserText, 0), ScenarioAnswer(1) >>
    /\ store[current_session_id][1].messages = Stored(messages)

\* the selected prompt name of the last request is in no entry of the
\* catalog the request was built with
Dangling(inputs) ==
    /\ inputs.prompt_name # None
    /\ \A i \in DOMAIN inputs.system_prompts :
          inputs.system_prompts[i].name # inputs.prompt_name[1]

\* the request as the list before the placeholder gives it, without a
\* system message
PlainHistory ==
    [ i \in 1..(Len(messages) - 1) |->
        [ role |-> messages[i].role, content |-> messages[i].content ] ]

\* C31: when the selected prompt name matches no prompt of the catalog, a
\* submit or regenerate with an API key still sends its request, the
\* request holds the history and no system message, the placeholder has no
\* prompt name, and the error slot is empty.
C31_DanglingPromptName ==
    (result.op = "request" /\ result.ok /\ Dangling(result.value[1].inputs))
       => /\ result.value[1].sent = PlainHistory
          /\ \A i \in DOMAIN result.value[1].sent :
                result.value[1].sent[i].role # "system"
          /\ messages[Len(messages)].role = "assistant"
          /\ messages[Len(messages)].prompt_name = None
          /\ error = None

\* a request was sent under a dangling prompt name
C31_Witness ==
    /\ result.op = "request" /\ result.ok
    /\ Dangling(result.value[1].inputs)
    /\ result.value[1].inputs.system_prompts # <<>>
    /\ Len(result.value[1].sent) >= 1
    /\ messages[Len(messages)].content = <<>>

\* the text of the first catalog entry the selected name matches, empty
\* if there is none
SelectedText(inputs) ==
    IF inputs.prompt_name = None THEN <<>>
    ELSE LET hits == { i \in DOMAIN inputs.system_prompts :
                          inputs.system_prompts[i].name = inputs.prompt_name[1] }
         IN  IF hits = {} THEN <<>>
             ELSE inputs.system_prompts[
                      CHOOSE i \in hits : \A j \in hits : i <= j].prompt

\* C38: the messages of a request are the message list as it was before
\* the placeholder was appended, preceded by exactly one system message
\* with the selected prompt's text when that text is not empty and by
\* nothing otherwise; the placeholder is not part of the request and no
\* system message is in the message list.
C38_HistorySent ==
    /\ (result.op = "request" /\ result.ok)
          => LET text == SelectedText(result.value[1].inputs)
                 sent == result.value[1].sent
             IN  /\ text # <<>> =>
                       sent = << [ role |-> "system", content |-> text ] >>
                                 \o PlainHistory
                 /\ text = <<>> => sent = PlainHistory
                 /\ Len(sent) < Len(messages) + (IF text = <<>> THEN 0 ELSE 1)
    /\ \A i \in DOMAIN messages : messages[i].role # "system"

\* a request with a system message and one without were both sent from a
\* history of more than one message
C38_Witness ==
    /\ result.op = "request" /\ result.ok
    /\ SelectedText(result.value[1].inputs) # <<>>
    /\ Len(result.value[1].sent) = 4
    /\ result.value[1].sent[1].role = "system"
    /\ \E i \in DOMAIN messages :
          messages[i].role = "assistant" /\ messages[i].prompt_name = None

\* a submit, regenerate or edit-and-resubmit step
RequestAction ==
    \E key_empty \in BOOLEAN, open_fails \in BOOLEAN :
        \/ submit_action(key_empty, open_fails)
        \/ \E index \in 0..(Len(messages) - 1) :
               \/ regenerate_action(index, key_empty, open_fails)
               \/ handle_resubmit(index, key_empty, open_fails)

\* the request of the step was refused or failed to open its stream
RequestFailed == runs'[next_run].outcome \in { "rejected", "error" }

\* what the request actions, a new session and a completed load do to the
\* error slot
ClearedByAction ==
    /\ [][RequestAction => (error' = None <=> ~RequestFailed)]_vars
    /\ [][create_new_session => error' = None]_vars
    /\ [][(\E id \in SessionIds : load_session(id) /\ store[id] # None)
             => error' = None]_vars

\* C32 as stated: after a submit, regenerate, cancel, completed load or new
\* session the error slot is empty unless the action itself failed.
C32_ClearedByNextAction ==
    /\ ClearedByAction
    /\ [][cancel_action => error' = None]_vars

\* C32: after a submit, regenerate or edit-and-resubmit that starts its
\* request, after a new session and after a load that finds its session
\* the error slot is empty; a request that fails sets the slot; cancel
\* leaves the error slot as it is.
C32_ClearedExceptByCancel ==
    /\ ClearedByAction
    /\ [][cancel_action => error' = error]_vars

\* the first request was refused and set the error slot; the second one,
\* in the same session, is in flight and the slot is empty
C32_Witness ==
    /\ runs[1].outcome = "rejected"
    /\ runs[2].pc = "loop"
    /\ runs[2].session = runs[1].session
    /\ loads = {}
    /\ current_session_index = None
    /\ error = None

\* C36: once a record is stored under an id, every later stored version
\* of that id has the same created_at_ms, whatever the order in which the
\* reads and writes of the debounced save and of the New Chat save of that
\* id take place.
C36_CreatedAtStable ==
    [][\A id \in SessionIds :
          store[id] # None
             => /\ store'[id] # None
                /\ store'[id][1].created_at_ms = store[id][1].created_at_ms]_vars

\* C33: every record in the store has created_at_ms <= updated_at_ms, the
\* clock never going backwards.
C33_CreatedBeforeUpdated ==
    \A id \in SessionIds :
        store[id] # None
           => store[id][1].created_at_ms <= store[id][1].updated_at_ms

\* a record that was stored before the model starts was saved again later,
\* and a record of a session of this run was written twice
C33_Witness ==
    \E id \in SessionIds :
        /\ store[id] # None
        /\ store[id][1].created_at_ms < store[id][1].updated_at_ms
        /\ store[id][1].updated_at_ms > DEBOUNCE_MS

\* C34: a request to load the session that is already current starts no
\* read of the store, and no load of the current session changes the
\* message list, the session id, the error slot or any run.
C34_LoadCurrentIdempotent ==
    /\ [][\A id \in SessionIds :
             (session_load_request(id) /\ id = current_session_id)
                => loads' = loads]_vars
    /\ [][\A id \in SessionIds :
             (load_session(id) /\ id = current_session_id)
                => UNCHANGED << messages, current_session_id, error, runs >>]_vars

\* C35: whenever a click can be taken, can_go_prev is true exactly if
\* on_prev starts a load and can_go_next exactly if on_next starts one;
\* without an index Next is disabled and Prev, if the list has an entry,
\* loads its first entry, the newest session of the list.
C35_ButtonsMatchHandlers ==
    /\ [](Quiescent => /\ can_go_prev <=> ENABLED on_prev
                       /\ can_go_next <=> ENABLED on_next)
    /\ [](current_session_index = None
             => /\ ~can_go_next
                /\ can_go_prev <=> sorted_session_ids # <<>>)
    /\ [][(on_prev /\ current_session_index = None)
             => loads' = loads \cup { sorted_session_ids[1] }]_vars
    /\ [][on_prev => can_go_prev]_vars
    /\ [][on_next => can_go_next]_vars

\* the current session is the older of two listed sessions: Next is
\* offered and Prev is not, while a load is under way
C35_Witness ==
    /\ current_session_index = Some(1)
    /\ can_go_next
    /\ ~can_go_prev
    /\ Len(sorted_session_ids) = 2
    /\ loads # {}

\* C39: when current_session_index is Some(i), i is a position of
\* sorted_session_ids and the id at that position is the current session
\* id, however loads, list reloads, saves and New Chat overlap.
C39_IndexNamesCurrent ==
    current_session_index # None
       => /\ current_session_index[1] < Len(sorted_session_ids)
          /\ sorted_session_ids[current_session_index[1] + 1]
                = current_session_id

\* the current session is the older of two listed sessions while a save
\* is armed and a list reload is under way
C39_Witness ==
    /\ current_session_index = Some(1)
    /\ Len(sorted_session_ids) = 2
    /\ sorted_session_ids[2] = current_session_id
    /\ list_pending
    /\ pending_save # None

\* C37: regenerate(index) with no run in flight keeps the messages before
\* index, removes the others and starts one request; when that run
\* completes the list is the kept messages followed by the run's assistant
\* message, and when it is cancelled or its stream fails the list is the
\* kept messages alone.
C37_RegenerateFrame ==
    /\ [][\A index \in 0..(Len(messages) - 1) :
             (NoRun /\ \E key_empty \in BOOLEAN, open_fails \in BOOLEAN :
                          regenerate_action(index, key_empty, open_fails))
                => /\ next_run' = next_run + 1
                   /\ IF runs'[next_run].pc = "loop"
                      THEN /\ messages' =
                                  Append(SubSeq(messages, 1, index),
                                         Message("assistant", <<>>, next_run))
                           /\ runs'[next_run].pre = SubSeq(messages, 1, index)
                      ELSE messages' = SubSeq(messages, 1, index)]_vars
    /\ [][\A r \in RunIds :
             ( /\ InFlight(r)
               /\ runs[r].origin = "regenerate"
               /\ runs[r].alone
               /\ runs'[r].pc = "done" )
                => IF runs'[r].outcome = "completed"
                   THEN /\ Len(messages') = Len(runs[r].pre) + 1
                        /\ SubSeq(messages', 1, Len(runs[r].pre)) = runs[r].pre
                        /\ messages'[Len(messages')].role = "assistant"
                        /\ messages'[Len(messages')].run = r
                   ELSE messages' = runs[r].pre]_vars

\* C40: a run takes its cancel branch only after cancel_action has sent on
\* the sender of that run; a sender that was replaced or cleared does not
\* make the run end as cancelled.
C40_CancelOnlyByUser ==
    [][\A r \in RunIds : CancelBranch(r) => runs[r].rx = "sent"]_vars

====
